---- MODULE Spec2Model ----
(***************************************************************************)
(* A model of faux-code: the per-line tokenizer and language classifier of *)
(* src/src/syntaxHighlighter.js, and the batch pipeline and grid layout of *)
(* src/index.js (edge-to-edge) and src/unnamed/part_000 (centered).        *)
(*                                                                         *)
(* Strings are sequences of one-character strings.  Indices are 0-based as *)
(* in the source; At(s, k) reads s[k].  Non-integer numbers of the layout  *)
(* are exact rationals [n, d].                                             *)
(***************************************************************************)
EXTENDS Integers, Sequences, FiniteSets, TLC

VARIABLES
  line, language, i, tokens, hlpc,      \* highlightCode: arguments, locals, position
  filePath, detected,                   \* detectLanguage: argument, returned tag
  variant,                              \* which entry point runs: index.js or part_000
  recentFiles, fileIdx, svgData,        \* main: the files found, files done, blocks kept
  pc, stderr, exitCode,                 \* main: position, console.error lines, exit code
  compositorCalls,                      \* the arguments of each combineSVGsToWallpaper call
  grid, composites, outputWritten,      \* combineSVGsToWallpaper: grid, composite list, file
  diskWritable                          \* whether toFile can write the output file

hlVars == <<line, language, i, tokens, hlpc>>
dlVars == <<filePath, detected>>
mainVars ==
  <<variant, recentFiles, fileIdx, svgData, pc, stderr, exitCode, compositorCalls, grid,
    composites, outputWritten, diskWritable>>
vars == <<hlVars, dlVars, mainVars>>

(***************************************************************************)
(* Bounds of the explored inputs.                                          *)
(***************************************************************************)
MaxLineLen == 4
MaxNameLen == 5

\* The backtick character (a TLA+ string cannot hold it).
backtick == "BACKTICK"

LineAlphabet == {" ", "/", "\"", "'", backtick, "\\", "1", "d", "o"}
NameAlphabet == {".", "p", "y", "j", "s", "x", "t", "a", "v", "P"}
Languages == {"javascript", "python", "java"}

Strings(alphabet, n) == UNION {[1..k -> alphabet] : k \in 0..n}

(***************************************************************************)
(* JavaScript strings.                                                     *)
(***************************************************************************)
undefined == "undefined"

\* s[k]: the character at 0-based index k, undefined outside the string.
At(s, k) == IF k >= 0 /\ k < Len(s) THEN s[k + 1] ELSE undefined

\* The string a value becomes when it is an operand of + with a string.
ToStr(c) == IF c = undefined THEN <<"u", "n", "d", "e", "f", "i", "n", "e", "d">> ELSE <<c>>

\* s.slice(k)
slice(s, k) == SubSeq(s, k + 1, Len(s))

LowerOf ==
  [c \in {"A","B","C","D","E","F","G","H","I","J","K","L","M","N","O","P","Q","R","S","T",
          "U","V","W","X","Y","Z"} |->
     CASE c = "A" -> "a" [] c = "B" -> "b" [] c = "C" -> "c" [] c = "D" -> "d"
       [] c = "E" -> "e" [] c = "F" -> "f" [] c = "G" -> "g" [] c = "H" -> "h"
       [] c = "I" -> "i" [] c = "J" -> "j" [] c = "K" -> "k" [] c = "L" -> "l"
       [] c = "M" -> "m" [] c = "N" -> "n" [] c = "O" -> "o" [] c = "P" -> "p"
       [] c = "Q" -> "q" [] c = "R" -> "r" [] c = "S" -> "s" [] c = "T" -> "t"
       [] c = "U" -> "u" [] c = "V" -> "v" [] c = "W" -> "w" [] c = "X" -> "x"
       [] c = "Y" -> "y" [] c = "Z" -> "z"]

\* s.toLowerCase()
toLowerCase(s) == [k \in 1..Len(s) |-> IF s[k] \in DOMAIN LowerOf THEN LowerOf[s[k]] ELSE s[k]]

\* s.split('.'): the pieces between the dots, at least one piece.
RECURSIVE splitDot(_, _, _)
splitDot(s, k, piece) ==
  IF k >= Len(s) THEN <<piece>>
  ELSE IF At(s, k) = "." THEN <<piece>> \o splitDot(s, k + 1, <<>>)
  ELSE splitDot(s, k + 1, Append(piece, At(s, k)))

\* a.pop(): the last element of a non-empty array.
pop(a) == a[Len(a)]

(***************************************************************************)
(* syntaxHighlighter.js: keyword tables.                                   *)
(***************************************************************************)
keywordsJavascript ==
  {
    <<"a","b","s","t","r","a","c","t">>, <<"a","r","g","u","m","e","n","t","s">>,
    <<"a","w","a","i","t">>, <<"b","o","o","l","e","a","n">>, <<"b","r","e","a","k">>,
    <<"b","y","t","e">>, <<"c","a","s","e">>, <<"c","a","t","c","h">>, <<"c","h","a","r">>,
    <<"c","l","a","s","s">>, <<"c","o","n","s","t">>, <<"c","o","n","t","i","n","u","e">>,
    <<"d","e","b","u","g","g","e","r">>, <<"d","e","f","a","u","l","t">>,
    <<"d","e","l","e","t","e">>, <<"d","o">>, <<"d","o","u","b","l","e">>, <<"e","l","s","e">>,
    <<"e","n","u","m">>, <<"e","v","a","l">>, <<"e","x","p","o","r","t">>,
    <<"e","x","t","e","n","d","s">>, <<"f","a","l","s","e">>, <<"f","i","n","a","l">>,
    <<"f","i","n","a","l","l","y">>, <<"f","l","o","a","t">>, <<"f","o","r">>,
    <<"f","u","n","c","t","i","o","n">>, <<"g","o","t","o">>, <<"i","f">>,
    <<"i","m","p","l","e","m","e","n","t","s">>, <<"i","m","p","o","r","t">>, <<"i","n">>,
    <<"i","n","s","t","a","n","c","e","o","f">>, <<"i","n","t">>,
    <<"i","n","t","e","r","f","a","c","e">>, <<"l","e","t">>, <<"l","o","n","g">>,
    <<"n","a","t","i","v","e">>, <<"n","e","w">>, <<"n","u","l","l">>,
    <<"p","a","c","k","a","g","e">>, <<"p","r","i","v","a","t","e">>,
    <<"p","r","o","t","e","c","t","e","d">>, <<"p","u","b","l","i","c">>,
    <<"r","e","t","u","r","n">>, <<"s","h","o","r","t">>, <<"s","t","a","t","i","c">>,
    <<"s","u","p","e","r">>, <<"s","w","i","t","c","h">>,
    <<"s","y","n","c","h","r","o","n","i","z","e","d">>, <<"t","h","i","s">>,
    <<"t","h","r","o","w">>, <<"t","h","r","o","w","s">>, <<"t","r","a","n","s","i","e","n","t">>,
    <<"t","r","u","e">>, <<"t","r","y">>, <<"t","y","p","e","o","f">>, <<"v","a","r">>,
    <<"v","o","i","d">>, <<"v","o","l","a","t","i","l","e">>, <<"w","h","i","l","e">>,
    <<"w","i","t","h">>, <<"y","i","e","l","d">>, <<"a","s","y","n","c">>, <<"o","f">>
  }

keywordsPython ==
  {
    <<"F","a","l","s","e">>, <<"N","o","n","e">>, <<"T","r","u","e">>, <<"a","n","d">>,
    <<"a","s">>, <<"a","s","s","e","r","t">>, <<"a","s","y","n","c">>, <<"a","w","a","i","t">>,
    <<"b","r","e","a","k">>, <<"c","l","a","s","s">>, <<"c","o","n","t","i","n","u","e">>,
    <<"d","e","f">>, <<"d","e","l">>, <<"e","l","i","f">>, <<"e","l","s","e">>,
    <<"e","x","c","e","p","t">>, <<"f","i","n","a","l","l","y">>, <<"f","o","r">>,
    <<"f","r","o","m">>, <<"g","l","o","b","a","l">>, <<"i","f">>, <<"i","m","p","o","r","t">>,
    <<"i","n">>, <<"i","s">>, <<"l","a","m","b","d","a">>, <<"n","o","n","l","o","c","a","l">>,
    <<"n","o","t">>, <<"o","r">>, <<"p","a","s","s">>, <<"r","a","i","s","e">>,
    <<"r","e","t","u","r","n">>, <<"t","r","y">>, <<"w","h","i","l","e">>, <<"w","i","t","h">>,
    <<"y","i","e","l","d">>
  }

keywordsJava ==
  {
    <<"a","b","s","t","r","a","c","t">>, <<"a","s","s","e","r","t">>,
    <<"b","o","o","l","e","a","n">>, <<"b","r","e","a","k">>, <<"b","y","t","e">>,
    <<"c","a","s","e">>, <<"c","a","t","c","h">>, <<"c","h","a","r">>, <<"c","l","a","s","s">>,
    <<"c","o","n","s","t">>, <<"c","o","n","t","i","n","u","e">>, <<"d","e","f","a","u","l","t">>,
    <<"d","o">>, <<"d","o","u","b","l","e">>, <<"e","l","s","e">>, <<"e","n","u","m">>,
    <<"e","x","t","e","n","d","s">>, <<"f","i","n","a","l">>, <<"f","i","n","a","l","l","y">>,
    <<"f","l","o","a","t">>, <<"f","o","r">>, <<"g","o","t","o">>, <<"i","f">>,
    <<"i","m","p","l","e","m","e","n","t","s">>, <<"i","m","p","o","r","t">>,
    <<"i","n","s","t","a","n","c","e","o","f">>, <<"i","n","t">>,
    <<"i","n","t","e","r","f","a","c","e">>, <<"l","o","n","g">>, <<"n","a","t","i","v","e">>,
    <<"n","e","w">>, <<"n","u","l","l">>, <<"p","a","c","k","a","g","e">>,
    <<"p","r","i","v","a","t","e">>, <<"p","r","o","t","e","c","t","e","d">>,
    <<"p","u","b","l","i","c">>, <<"r","e","t","u","r","n">>, <<"s","h","o","r","t">>,
    <<"s","t","a","t","i","c">>, <<"s","t","r","i","c","t","f","p">>, <<"s","u","p","e","r">>,
    <<"s","w","i","t","c","h">>, <<"s","y","n","c","h","r","o","n","i","z","e","d">>,
    <<"t","h","i","s">>, <<"t","h","r","o","w">>, <<"t","h","r","o","w","s">>,
    <<"t","r","a","n","s","i","e","n","t">>, <<"t","r","y">>, <<"v","o","i","d">>,
    <<"v","o","l","a","t","i","l","e">>, <<"w","h","i","l","e">>, <<"t","r","u","e">>,
    <<"f","a","l","s","e">>
  }

\* keywords[language] || keywords.javascript
keywordList(lang) ==
  CASE lang = "javascript" -> keywordsJavascript
    [] lang = "python" -> keywordsPython
    [] lang = "java" -> keywordsJava
    [] OTHER -> keywordsJavascript

(***************************************************************************)
(* syntaxHighlighter.js: detectLanguage.                                   *)
(***************************************************************************)
detectLanguage(path) ==
  LET ext == toLowerCase(pop(splitDot(path, 0, <<>>)))
  IN  IF ext = <<"p", "y">> THEN "python"
      ELSE IF ext \in {<<"j", "s">>, <<"j", "s", "x">>, <<"t", "s">>, <<"t", "s", "x">>}
        THEN "javascript"
      ELSE IF ext = <<"j", "a", "v", "a">> THEN "java"
      ELSE "javascript"

(***************************************************************************)
(* syntaxHighlighter.js: the character classes of highlightCode.           *)
(***************************************************************************)
Digits == {"0", "1", "2", "3", "4", "5", "6", "7", "8", "9"}
Letters ==
  {"a","b","c","d","e","f","g","h","i","j","k","l","m","n","o","p","q","r","s","t","u","v",
   "w","x","y","z","A","B","C","D","E","F","G","H","I","J","K","L","M","N","O","P","Q","R",
   "S","T","U","V","W","X","Y","Z"}

\* /\s/ on the characters a line can hold here (a line never holds "\n").
IsWhitespace(c) == c \in {" ", "\t", "\r", "\f"}
\* /\d/
IsDigit(c) == c \in Digits
\* /[\d._xXoObB]/
IsNumberChar(c) == c \in Digits \cup {".", "_", "x", "X", "o", "O", "b", "B"}
\* /[a-zA-Z_$]/
IsIdentStart(c) == c \in Letters \cup {"_", "$"}
\* /[a-zA-Z0-9_$]/
IsIdentChar(c) == c \in Letters \cup Digits \cup {"_", "$"}

(***************************************************************************)
(* syntaxHighlighter.js: the inner loops of highlightCode.                 *)
(***************************************************************************)
\* The escape step of the string loops: str += line[i] + line[i + 1].
escapePair(s, k) == ToStr(At(s, k)) \o ToStr(At(s, k + 1))

\* Faulty variant: the loop without its escape step, every character taken alone.
RECURSIVE stringLoop_noEscape(_, _, _, _)
stringLoop_noEscape(s, q, k, str) ==
  IF k < Len(s) /\ At(s, k) # q
    THEN stringLoop_noEscape(s, q, k + 1, str \o <<At(s, k)>>)
    ELSE [str |-> str, i |-> k]

\* while (i < line.length && line[i] !== q) { ... }: the string built and
\* the index the loop stops at.
RECURSIVE stringLoop(_, _, _, _)
stringLoop(s, q, k, str) ==
  IF k < Len(s) /\ At(s, k) # q
    THEN IF At(s, k) = "\\"
           THEN stringLoop(s, q, k + 2, str \o escapePair(s, k))
           ELSE stringLoop(s, q, k + 1, str \o <<At(s, k)>>)
    ELSE [str |-> str, i |-> k]

\* What the loop leaves is closed with the quote: str += q.
closeString(str, q) == str \o <<q>>

\* One string branch: the token pushed and the index after i++.
scanString(s, q, k) ==
  LET r == stringLoop(s, q, k + 1, <<q>>)
  IN  [token |-> [type |-> "string", value |-> closeString(r.str, q)], i |-> r.i + 1]

RECURSIVE numberLoop(_, _, _)
numberLoop(s, k, num) ==
  IF k < Len(s) /\ IsNumberChar(At(s, k))
    THEN numberLoop(s, k + 1, num \o <<At(s, k)>>)
    ELSE [str |-> num, i |-> k]

RECURSIVE identLoop(_, _, _)
identLoop(s, k, ident) ==
  IF k < Len(s) /\ IsIdentChar(At(s, k))
    THEN identLoop(s, k + 1, ident \o <<At(s, k)>>)
    ELSE [str |-> ident, i |-> k]

\* Faulty variant: a comment is recognised only at the start of the line.
atComment_lineStart(s, k) == k = 0 /\ At(s, k) = "/" /\ At(s, k + 1) = "/"

\* The test of the comment branch.
atComment(s, k) == At(s, k) = "/" /\ At(s, k + 1) = "/"

(***************************************************************************)
(* highlightCode, one action per branch of one pass of while (i < length). *)
(***************************************************************************)
Scanning == hlpc = "scan" /\ i < Len(line)

Whitespace ==
  /\ Scanning
  /\ IsWhitespace(At(line, i))
  /\ tokens' = Append(tokens, [type |-> "whitespace", value |-> <<At(line, i)>>])
  /\ i' = i + 1
  /\ UNCHANGED <<line, language, hlpc, dlVars, mainVars>>

Comment ==
  /\ Scanning
  /\ ~IsWhitespace(At(line, i))
  /\ atComment(line, i)
  /\ tokens' = Append(tokens, [type |-> "comment", value |-> slice(line, i)])
  /\ hlpc' = "done"
  /\ UNCHANGED <<line, language, i, dlVars, mainVars>>

StringBranch(q) ==
  /\ Scanning
  /\ At(line, i) = q
  /\ tokens' = Append(tokens, scanString(line, q, i).token)
  /\ i' = scanString(line, q, i).i
  /\ UNCHANGED <<line, language, hlpc, dlVars, mainVars>>

StringDouble == StringBranch("\"")

StringSingle == StringBranch("'")

StringBacktick == StringBranch(backtick)

Number ==
  /\ Scanning
  /\ IsDigit(At(line, i))
  /\ tokens' = Append(tokens, [type |-> "atom", value |-> numberLoop(line, i, <<>>).str])
  /\ i' = numberLoop(line, i, <<>>).i
  /\ UNCHANGED <<line, language, hlpc, dlVars, mainVars>>

Identifier ==
  /\ Scanning
  /\ ~IsDigit(At(line, i))
  /\ IsIdentStart(At(line, i))
  /\ LET ident == identLoop(line, i, <<>>).str
     IN  tokens' = Append(tokens,
           [type |-> IF ident \in keywordList(language) THEN "keyword" ELSE "variable",
            value |-> ident])
  /\ i' = identLoop(line, i, <<>>).i
  /\ UNCHANGED <<line, language, hlpc, dlVars, mainVars>>

Operator ==
  /\ Scanning
  /\ ~IsWhitespace(At(line, i))
  /\ ~atComment(line, i)
  /\ At(line, i) \notin {"\"", "'", backtick}
  /\ ~IsDigit(At(line, i))
  /\ ~IsIdentStart(At(line, i))
  /\ tokens' = Append(tokens, [type |-> "operator", value |-> <<At(line, i)>>])
  /\ i' = i + 1
  /\ UNCHANGED <<line, language, hlpc, dlVars, mainVars>>

\* The loop condition fails: return tokens.
Return ==
  /\ hlpc = "scan"
  /\ i >= Len(line)
  /\ hlpc' = "done"
  /\ UNCHANGED <<line, language, i, tokens, dlVars, mainVars>>

HighlightIdle ==
  /\ line = <<>> /\ language = "javascript" /\ i = 0 /\ tokens = <<>> /\ hlpc = "idle"

DetectIdle == filePath = <<>> /\ detected = "none"

NoGrid == [cols |-> 0, rows |-> 0, cellWidth |-> [n |-> 0, d |-> 1], cellHeight |-> [n |-> 0, d |-> 1]]

MainIdle ==
  /\ variant = "edge" /\ recentFiles = <<>> /\ fileIdx = 0 /\ svgData = <<>>
  /\ pc = "idle" /\ stderr = <<>> /\ exitCode = 0 /\ compositorCalls = <<>>
  /\ grid = NoGrid /\ composites = <<>> /\ outputWritten = FALSE /\ diskWritable = TRUE

HighlightInit ==
  /\ line \in Strings(LineAlphabet, MaxLineLen)
  /\ language \in Languages
  /\ i = 0
  /\ tokens = <<>>
  /\ hlpc = "scan"
  /\ DetectIdle
  /\ MainIdle

HighlightNext ==
  \/ Whitespace
  \/ Comment
  \/ StringDouble
  \/ StringSingle
  \/ StringBacktick
  \/ Number
  \/ Identifier
  \/ Operator
  \/ Return

SpecHighlight == HighlightInit /\ [][HighlightNext]_vars

(***************************************************************************)
(* Properties of highlightCode.                                            *)
(***************************************************************************)
Quotes == {"\"", "'", backtick}

\* The values of the tokens, concatenated in order.
RECURSIVE ConcatValues(_)
ConcatValues(toks) ==
  IF toks = <<>> THEN <<>> ELSE Head(toks).value \o ConcatValues(Tail(toks))

\* The number of consecutive backslashes that end right before index k and
\* start after the opening quote at index p.
BackslashRun(s, p, k) ==
  CHOOSE n \in 0..(k - p - 1) :
    /\ \A m \in 1..n : At(s, k - m) = "\\"
    /\ (n < k - p - 1 => At(s, k - n - 1) # "\\")

\* The indices after p that hold an unescaped q: an even run of backslashes
\* precedes them.
UnescapedQuotes(s, p, q) ==
  {k \in (p + 1)..(Len(s) - 1) : At(s, k) = q /\ BackslashRun(s, p, k) % 2 = 0}

Min(S) == CHOOSE x \in S : \A y \in S : x <= y

LastToken == tokens[Len(tokens)]

\* C1: for every line and language, the values of the tokens highlightCode
\* returns, concatenated in order, are exactly the line.
C1_Lossless == hlpc = "done" => ConcatValues(tokens) = line

\* C8: when the scanner stands on the two characters // (it never stands
\* inside a string token), the pass pushes exactly one comment token holding
\* the rest of the line from that index and returns, so the token is the last
\* of the result and the earlier tokens are untouched; no result holds a
\* comment token anywhere but last.
C8_CommentAbsorption ==
  /\ [](\A k \in 1..Len(tokens) :
          tokens[k].type = "comment" => (k = Len(tokens) /\ hlpc = "done"))
  /\ [][(hlpc = "scan" /\ i < Len(line) /\ At(line, i) = "/" /\ At(line, i + 1) = "/")
          => /\ tokens' = Append(tokens,
                            [type |-> "comment", value |-> SubSeq(line, i + 1, Len(line))])
             /\ hlpc' = "done"
             /\ \A k \in 1..Len(tokens) : tokens[k].type # "comment"]_vars

\* C8 witness: a result whose comment token follows a string token.
C8_Witness ==
  /\ hlpc = "done"
  /\ Len(tokens) = 2
  /\ tokens[1].type = "string"
  /\ tokens[2].type = "comment"
  /\ Len(tokens[2].value) = 2

\* C9: a string branch entered at an opening quote q pushes, when the line
\* holds an unescaped q later on, the string token whose value runs from the
\* opening quote through the first unescaped q, and scanning resumes right
\* after it; a q preceded by an odd run of backslashes never closes the
\* string, so with no unescaped q the scanner runs past the end of the line.
C9_StringEscaping ==
  [][\A q \in Quotes :
       (hlpc = "scan" /\ i < Len(line) /\ At(line, i) = q)
         => LET closing == UnescapedQuotes(line, i, q)
            IN  IF closing # {}
                  THEN /\ tokens' = Append(tokens,
                                      [type |-> "string",
                                       value |-> SubSeq(line, i + 1, Min(closing) + 1)])
                       /\ i' = Min(closing) + 1
                  ELSE i' > Len(line)]_vars

\* C9 witness: a closed string token that holds an escaped quote.
C9_Witness ==
  /\ tokens # <<>>
  /\ LastToken.type = "string"
  /\ i <= Len(line)
  /\ \E k \in 2..(Len(LastToken.value) - 2) :
       LastToken.value[k] = "\\" /\ LastToken.value[k + 1] = LastToken.value[1]

\* C10: a string branch entered at an opening quote with no unescaped
\* closing quote on the line pushes the string token whose value is the line
\* from the opening quote to its end, nothing appended.
C10_UnterminatedString ==
  [][\A q \in Quotes :
       (hlpc = "scan" /\ i < Len(line) /\ At(line, i) = q /\ UnescapedQuotes(line, i, q) = {})
         => tokens' = Append(tokens,
                        [type |-> "string", value |-> SubSeq(line, i + 1, Len(line))])]_vars

(***************************************************************************)
(* detectLanguage applied to a file path.                                  *)
(***************************************************************************)
Detect ==
  /\ detected = "none"
  /\ detected' = detectLanguage(filePath)
  /\ UNCHANGED <<filePath, hlVars, mainVars>>

DetectInit ==
  /\ filePath \in Strings(NameAlphabet, MaxNameLen)
  /\ detected = "none"
  /\ HighlightIdle
  /\ MainIdle

DetectNext == Detect

SpecDetect == DetectInit /\ [][DetectNext]_vars

(***************************************************************************)
(* index.js and part_000: configuration.                                   *)
(***************************************************************************)
WALLPAPER_WIDTH == 3840
WALLPAPER_HEIGHT == 2160
\* The column count of index.js.
EdgeCols == 4
\* What part_000 takes off the cell's width and height before scaling.
CellPadding == 40

Variants == {"edge", "centered"}

(***************************************************************************)
(* Numbers.  A JavaScript number that need not be an integer is the exact  *)
(* rational n / d, d > 0.  The program's numbers are doubles: a rational   *)
(* whose reduced denominator is no power of two is held rounded, so the    *)
(* double product dim * r of an integer and such an r, exactly a whole     *)
(* number p, is p or lies just below it, and Math.floor gives p or p - 1.  *)
(* Which one is fixed by the operands; a pass draws the set `down` of the  *)
(* operand pairs that floor to p - 1.  A product that is no whole number   *)
(* is further from one than the rounding error, and floors exactly.        *)
(***************************************************************************)
Rat(n, d) == [n |-> n, d |-> d]

\* a / k for an integer k > 0.
RatDiv(a, k) == Rat(a.n, a.d * k)

RatLeq(a, b) == a.n * b.d <= b.n * a.d

\* Math.min(a, b)
RatMin(a, b) == IF RatLeq(a, b) THEN a ELSE b

\* Math.floor(a) of a number held exactly.
RatFloor(a) == a.n \div a.d

RECURSIVE gcd(_, _)
gcd(a, b) == IF b = 0 THEN a ELSE gcd(b, a % b)

RECURSIVE IsPowerOfTwo(_)
IsPowerOfTwo(k) == k = 1 \/ (k > 1 /\ k % 2 = 0 /\ IsPowerOfTwo(k \div 2))

\* r is a double: its reduced denominator is a power of two.
IsDouble(r) == r.n = 0 \/ IsPowerOfTwo(r.d \div gcd(r.n, r.d))

\* The double product dim * r may lie just below the whole number it stands for.
MayRoundDown(dim, r) == dim > 0 /\ (dim * r.n) % r.d = 0 /\ ~IsDouble(r)

\* Math.floor(dim * r)
floorMul(dim, r, down) ==
  IF <<dim, r>> \in down THEN (dim * r.n) \div r.d - 1 ELSE (dim * r.n) \div r.d

\* Math.ceil(a / b) for integers a >= 0, b > 0.
ceilDiv(a, b) == (a + b - 1) \div b

\* Math.ceil(Math.sqrt(n)) for an integer n >= 1.
ceilSqrt(n) == CHOOSE c \in 1..n : c * c >= n /\ (c - 1) * (c - 1) < n

\* Math.max(...xs) of a non-empty array.
RECURSIVE maxOf(_)
maxOf(xs) ==
  IF Len(xs) = 1 THEN xs[1]
  ELSE LET m == maxOf(Tail(xs)) IN IF xs[1] >= m THEN xs[1] ELSE m

\* svgData.map((s) => s.width), svgData.map((s) => s.height)
widths(data) == [k \in 1..Len(data) |-> data[k].width]
heights(data) == [k \in 1..Len(data) |-> data[k].height]

(***************************************************************************)
(* generateFauxCodeForFile.  A file is [name, readable, svgValid, width,   *)
(* height]: whether reading and rendering it succeed, whether the rendered *)
(* SVG can be rasterised, and the size FauxCode reports.  The result is    *)
(* <<block>>, or <<>> for null.                                            *)
(***************************************************************************)
generateFauxCodeForFile(file) ==
  IF file.readable
    THEN <<[svg |-> [of |-> file.name, valid |-> file.svgValid],
            width |-> file.width, height |-> file.height, fileName |-> file.name]>>
    ELSE <<>>

(***************************************************************************)
(* combineSVGsToWallpaper of index.js: one shared scale, edge to edge.     *)
(***************************************************************************)
\* Faulty variant: rows rounded down.
edgeGrid_floorRows(count) ==
  [cols |-> EdgeCols, rows |-> count \div EdgeCols,
   cellWidth |-> Rat(WALLPAPER_WIDTH, EdgeCols),
   cellHeight |-> Rat(WALLPAPER_HEIGHT, IF count < EdgeCols THEN 1 ELSE count \div EdgeCols)]

edgeGrid(count) ==
  [cols |-> EdgeCols, rows |-> ceilDiv(count, EdgeCols),
   cellWidth |-> Rat(WALLPAPER_WIDTH, EdgeCols),
   cellHeight |-> Rat(WALLPAPER_HEIGHT, ceilDiv(count, EdgeCols))]

\* Faulty variant: the scale taken from the first block instead of the maxima.
globalScale_firstBlock(data, cellWidth, cellHeight) ==
  RatMin(RatDiv(cellWidth, data[1].width), RatDiv(cellHeight, data[1].height))

globalScale(data, cellWidth, cellHeight) ==
  LET maxWidth == maxOf(widths(data))
      maxHeight == maxOf(heights(data))
      scaleX == RatDiv(cellWidth, maxWidth)
      scaleY == RatDiv(cellHeight, maxHeight)
  IN  RatMin(scaleX, scaleY)

\* sharp(Buffer.from(svg)).resize(w, h).png().toBuffer() resolves: the SVG
\* can be rasterised and both sizes are positive integers; otherwise the
\* catch logs the error and the block is left out.
converts(svg, w, h) == svg.valid /\ w >= 1 /\ h >= 1

pngBuffer(svg, w, h) == [of |-> svg.of, width |-> w, height |-> h]

\* The composite entry of block k (0-based), edge to edge.
edgeEntry(data, k, g, scale, down) ==
  LET col == k % g.cols
      row == k \div g.cols
      scaledWidth == floorMul(data[k + 1].width, scale, down)
      scaledHeight == floorMul(data[k + 1].height, scale, down)
  IN  [input |-> pngBuffer(data[k + 1].svg, scaledWidth, scaledHeight),
       top |-> floorMul(row, g.cellHeight, down),
       left |-> floorMul(col, g.cellWidth, down)]

\* The for loop of index.js from block k on: the entries pushed.
RECURSIVE edgeLoop(_, _, _, _, _)
edgeLoop(data, k, g, scale, down) ==
  IF k >= Len(data) THEN <<>>
  ELSE LET e == edgeEntry(data, k, g, scale, down)
       IN  (IF converts(data[k + 1].svg, e.input.width, e.input.height) THEN <<e>> ELSE <<>>)
             \o edgeLoop(data, k + 1, g, scale, down)

\* The products of an edge-to-edge pass that may floor one below.
edgeRoundings(data, g, scale) ==
  {<<data[k].width, scale>> : k \in {m \in 1..Len(data) : MayRoundDown(data[m].width, scale)}}
    \cup
  {<<data[k].height, scale>> : k \in {m \in 1..Len(data) : MayRoundDown(data[m].height, scale)}}
    \cup
  {<<row, g.cellHeight>> : row \in {m \in 0..(g.rows - 1) : MayRoundDown(m, g.cellHeight)}}
    \cup
  {<<col, g.cellWidth>> : col \in {m \in 0..(g.cols - 1) : MayRoundDown(m, g.cellWidth)}}

(***************************************************************************)
(* combineSVGsToWallpaper of part_000: a scale per block, centered.        *)
(***************************************************************************)
centeredGrid(count) ==
  LET cols == ceilSqrt(count)
      rows == ceilDiv(count, cols)
  IN  [cols |-> cols, rows |-> rows,
       cellWidth |-> Rat(WALLPAPER_WIDTH \div cols, 1),
       cellHeight |-> Rat(WALLPAPER_HEIGHT \div rows, 1)]

\* Math.min((cellWidth - 40) / width, (cellHeight - 40) / height)
blockScale(width, height, cellWidth, cellHeight) ==
  RatMin(Rat(cellWidth - CellPadding, width), Rat(cellHeight - CellPadding, height))

\* Faulty variant: the block is put at the cell's corner plus its own size.
centeredOffset_plusSize(index, cell, size) == Rat(2 * index * cell + (cell + size), 2)

\* col * cellWidth + (cellWidth - scaledWidth) / 2, and the same down the rows.
centeredOffset(index, cell, size) == Rat(2 * index * cell + (cell - size), 2)

\* The composite entry of block k (0-based), centered in its cell.
centeredEntry(data, k, g, down) ==
  LET cellWidth == RatFloor(g.cellWidth)
      cellHeight == RatFloor(g.cellHeight)
      col == k % g.cols
      row == k \div g.cols
      scale == blockScale(data[k + 1].width, data[k + 1].height, cellWidth, cellHeight)
      scaledWidth == floorMul(data[k + 1].width, scale, down)
      scaledHeight == floorMul(data[k + 1].height, scale, down)
      x == centeredOffset(col, cellWidth, scaledWidth)
      y == centeredOffset(row, cellHeight, scaledHeight)
  IN  [input |-> pngBuffer(data[k + 1].svg, scaledWidth, scaledHeight),
       top |-> RatFloor(y), left |-> RatFloor(x)]

RECURSIVE centeredLoop(_, _, _, _)
centeredLoop(data, k, g, down) ==
  IF k >= Len(data) THEN <<>>
  ELSE LET e == centeredEntry(data, k, g, down)
       IN  (IF converts(data[k + 1].svg, e.input.width, e.input.height) THEN <<e>> ELSE <<>>)
             \o centeredLoop(data, k + 1, g, down)

\* The products of a centered pass that may floor one below.
centeredRoundings(data, g) ==
  LET scale(k) == blockScale(data[k].width, data[k].height,
                             RatFloor(g.cellWidth), RatFloor(g.cellHeight))
  IN  {<<data[k].width, scale(k)>> :
         k \in {m \in 1..Len(data) : MayRoundDown(data[m].width, scale(m))}}
        \cup
      {<<data[k].height, scale(k)>> :
         k \in {m \in 1..Len(data) : MayRoundDown(data[m].height, scale(m))}}

\* One "Error converting SVG to PNG" line per block left out.
conversionErrors(data, entries) ==
  [k \in 1..(Len(data) - Len(entries)) |-> "Error converting SVG to PNG"]

(***************************************************************************)
(* main, one action per call it makes.                                     *)
(***************************************************************************)
CurrentFile == recentFiles[fileIdx + 1]

\* generateFauxCodeForFile returns a block: svgData.push(result).
GenerateOk ==
  /\ pc = "files"
  /\ fileIdx < Len(recentFiles)
  /\ generateFauxCodeForFile(CurrentFile) # <<>>
  /\ svgData' = svgData \o generateFauxCodeForFile(CurrentFile)
  /\ fileIdx' = fileIdx + 1
  /\ UNCHANGED <<variant, recentFiles, pc, stderr, exitCode, compositorCalls, grid,
                 composites, outputWritten, diskWritable, hlVars, dlVars>>

\* Faulty variant: the error is not caught and ends the run.
GenerateFail_uncaught ==
  /\ pc = "files"
  /\ fileIdx < Len(recentFiles)
  /\ generateFauxCodeForFile(CurrentFile) = <<>>
  /\ pc' = "exit"
  /\ exitCode' = 1
  /\ UNCHANGED <<variant, recentFiles, fileIdx, svgData, stderr, compositorCalls, grid,
                 composites, outputWritten, diskWritable, hlVars, dlVars>>

\* generateFauxCodeForFile catches, logs and returns null: nothing is pushed.
GenerateFail ==
  /\ pc = "files"
  /\ fileIdx < Len(recentFiles)
  /\ generateFauxCodeForFile(CurrentFile) = <<>>
  /\ stderr' = Append(stderr, "Error processing file")
  /\ fileIdx' = fileIdx + 1
  /\ UNCHANGED <<variant, recentFiles, svgData, pc, exitCode, compositorCalls, grid,
                 composites, outputWritten, diskWritable, hlVars, dlVars>>

\* svgData.length === 0: console.error(...); return.  The process ends with
\* the exit code it has.
EmptyBatch ==
  /\ pc = "files"
  /\ fileIdx = Len(recentFiles)
  /\ Len(svgData) = 0
  /\ stderr' = Append(stderr, "No valid code files found to generate wallpaper.")
  /\ pc' = "exit"
  /\ UNCHANGED <<variant, recentFiles, fileIdx, svgData, exitCode, compositorCalls, grid,
                 composites, outputWritten, diskWritable, hlVars, dlVars>>

\* await combineSVGsToWallpaper(svgData).  toFile writes the image or
\* rejects; the rejection is caught nowhere and ends the process with exit
\* code 1.
Combine(g, entries) ==
  /\ pc = "files"
  /\ fileIdx = Len(recentFiles)
  /\ Len(svgData) # 0
  /\ compositorCalls' = Append(compositorCalls, svgData)
  /\ grid' = g
  /\ composites' = entries
  /\ stderr' = stderr \o conversionErrors(svgData, entries)
  /\ outputWritten' = diskWritable
  /\ exitCode' = IF diskWritable THEN exitCode ELSE 1
  /\ pc' = "exit"
  /\ UNCHANGED <<variant, recentFiles, fileIdx, svgData, diskWritable, hlVars, dlVars>>

CombineEdge ==
  /\ variant = "edge"
  /\ LET g == edgeGrid(Len(svgData))
         scale == globalScale(svgData, g.cellWidth, g.cellHeight)
     IN  \E down \in SUBSET edgeRoundings(svgData, g, scale) :
           Combine(g, edgeLoop(svgData, 0, g, scale, down))

CombineCentered ==
  /\ variant = "centered"
  /\ LET g == centeredGrid(Len(svgData))
     IN  \E down \in SUBSET centeredRoundings(svgData, g) :
           Combine(g, centeredLoop(svgData, 0, g, down))

(***************************************************************************)
(* The batch pipeline over every short list of files.  A file fails to be  *)
(* read, or renders to a block of one of four sizes, or to an SVG that     *)
(* cannot be rasterised.                                                   *)
(***************************************************************************)
MaxFiles == 4

BaseKind == [readable |-> TRUE, svgValid |-> TRUE, width |-> 797, height |-> 601]
WideKind == [readable |-> TRUE, svgValid |-> TRUE, width |-> 1201, height |-> 307]
TallKind == [readable |-> TRUE, svgValid |-> TRUE, width |-> 311, height |-> 1193]
SliverKind == [readable |-> TRUE, svgValid |-> TRUE, width |-> 1, height |-> 1999]
InvalidKind == [readable |-> TRUE, svgValid |-> FALSE, width |-> 797, height |-> 601]
UnreadableKind == [readable |-> FALSE, svgValid |-> TRUE, width |-> 797, height |-> 601]

FileKinds == {UnreadableKind, BaseKind, TallKind, InvalidKind}

\* The files a list of kinds stands for; a file's name is its place in the list.
FilesOf(kinds) ==
  [k \in 1..Len(kinds) |->
     [name |-> k, readable |-> kinds[k].readable, svgValid |-> kinds[k].svgValid,
      width |-> kinds[k].width, height |-> kinds[k].height]]

MainInit ==
  /\ variant \in Variants
  /\ \E kinds \in Strings(FileKinds, MaxFiles) : recentFiles = FilesOf(kinds)
  /\ diskWritable \in BOOLEAN
  /\ fileIdx = 0 /\ svgData = <<>> /\ pc = "files" /\ stderr = <<>> /\ exitCode = 0
  /\ compositorCalls = <<>> /\ grid = NoGrid /\ composites = <<>> /\ outputWritten = FALSE
  /\ HighlightIdle
  /\ DetectIdle

MainNext ==
  \/ GenerateOk
  \/ GenerateFail
  \/ EmptyBatch
  \/ CombineEdge
  \/ CombineCentered

SpecMain == MainInit /\ [][MainNext]_vars

(***************************************************************************)
(* combineSVGsToWallpaper over larger batches: main at the end of its file *)
(* loop, every file rendered, all blocks of one base size but at most two  *)
(* neighbours.  The batch sizes go beyond numberOfFiles (12 in index.js, 5 *)
(* in part_000), a configuration value the function does not depend on: a  *)
(* cell height that is not an integer needs 7 rows, 25 blocks.             *)
(***************************************************************************)
MaxBlocks == 25

FirstKinds == {WideKind, TallKind, SliverKind, InvalidKind}
SecondKinds == {BaseKind, WideKind, TallKind}

\* n kinds: ka at place a, kb right after it, the base kind elsewhere.
BatchKinds(n, a, ka, kb) ==
  [k \in 1..n |-> IF k = a THEN ka ELSE IF k = a + 1 THEN kb ELSE BaseKind]

RECURSIVE BlocksOf(_)
BlocksOf(files) ==
  IF files = <<>> THEN <<>>
  ELSE generateFauxCodeForFile(Head(files)) \o BlocksOf(Tail(files))

LayoutInit ==
  /\ variant \in Variants
  /\ \E n \in 1..MaxBlocks : \E a \in 1..n :
       \E ka \in FirstKinds : \E kb \in SecondKinds :
         recentFiles = FilesOf(BatchKinds(n, a, ka, kb))
  /\ diskWritable = TRUE
  /\ fileIdx = Len(recentFiles)
  /\ svgData = BlocksOf(recentFiles)
  /\ pc = "files" /\ stderr = <<>> /\ exitCode = 0
  /\ compositorCalls = <<>> /\ grid = NoGrid /\ composites = <<>> /\ outputWritten = FALSE
  /\ HighlightIdle
  /\ DetectIdle

LayoutNext ==
  \/ CombineEdge
  \/ CombineCentered

SpecLayout == LayoutInit /\ [][LayoutNext]_vars

(***************************************************************************)
(* Properties of the layout.                                               *)
(***************************************************************************)
Composed == pc = "exit" /\ compositorCalls # <<>>

\* The place in svgData of the block a composite entry was rendered from.
PlaceOf(e) == CHOOSE k \in 1..Len(svgData) : svgData[k].fileName = e.input.of

BlockOf(e) == svgData[PlaceOf(e)]

Entries == {composites[k] : k \in 1..Len(composites)}

Largest(S) == CHOOSE x \in S : \A y \in S : y <= x

MaxWidth == Largest({svgData[k].width : k \in 1..Len(svgData)})
MaxHeight == Largest({svgData[k].height : k \in 1..Len(svgData)})

\* The smaller of the fractions a / b and c / d, all four positive.
SmallerFraction(a, b, c, d) == IF a * d <= c * b THEN [n |-> a, d |-> b] ELSE [n |-> c, d |-> d]

\* min(cellWidth / mw, cellHeight / mh)
SharedScale(mw, mh) ==
  SmallerFraction(grid.cellWidth.n, grid.cellWidth.d * mw,
                  grid.cellHeight.n, grid.cellHeight.d * mh)

\* min((cellWidth - 40) / width, (cellHeight - 40) / height) of block b.
OwnScale(b) ==
  SmallerFraction(grid.cellWidth.n \div grid.cellWidth.d - 40, b.width,
                  grid.cellHeight.n \div grid.cellHeight.d - 40, b.height)

\* What Math.floor(dim * s) can be: the floor of the exact product, or one
\* less when the product is a whole number and s is held rounded.
Floors(dim, s) ==
  {(dim * s.n) \div s.d} \cup
    (IF MayRoundDown(dim, s) THEN {(dim * s.n) \div s.d - 1} ELSE {})

\* The placed blocks with the sizes they were given: [block, width, height].
Sized ==
  {[block |-> BlockOf(e), width |-> e.input.width, height |-> e.input.height] : e \in Entries}

\* The sizes given to block x.block are that block scaled by s.
ScaledBy(x, s) == x.width \in Floors(x.block.width, s) /\ x.height \in Floors(x.block.height, s)

\* Blocks of one width get one scaled width, and the same for heights.
SameSizeScaledAlike(sized) ==
  \A x, y \in sized :
    /\ x.block.width = y.block.width => x.width = y.width
    /\ x.block.height = y.block.height => x.height = y.height

GridCoversCells ==
  /\ grid.cols * grid.rows >= Len(svgData)
  /\ \A e \in Entries :
       /\ e.input.width * grid.cellWidth.d <= grid.cellWidth.n
       /\ e.input.height * grid.cellHeight.d <= grid.cellHeight.n

\* C4 as stated: N blocks of positive size give exactly N placements, one
\* per input index in input order, with cols * rows >= N and every scaled
\* size within its cell.
C4_ExactlyNPlacements ==
  Composed =>
    /\ Len(composites) = Len(svgData)
    /\ \A k \in 1..Len(composites) : composites[k].input.of = svgData[k].fileName
    /\ GridCoversCells

\* The scale the variant gives block b.
ScaleOf(b, shared) == IF variant = "edge" THEN shared ELSE OwnScale(b)

\* C4 amended: the pass emits at most one placement per block, in input
\* order, for exactly the blocks whose conversion to PNG succeeds: a block
\* is left out only if its SVG is invalid or its scaled width or height can
\* be below 1, and is placed if its SVG is valid and neither can; so N
\* blocks that all convert give exactly N placements.  cols * rows >= N and
\* every scaled size is within its cell.
C4_OnePlacementPerConvertedBlock ==
  Composed =>
    LET shared == SharedScale(MaxWidth, MaxHeight)
        placed == {PlaceOf(e) : e \in Entries}
    IN  /\ \A k \in 1..(Len(composites) - 1) : PlaceOf(composites[k]) < PlaceOf(composites[k + 1])
        /\ \A k \in 1..Len(svgData) :
             LET b == svgData[k]
                 ws == Floors(b.width, ScaleOf(b, shared))
                 hs == Floors(b.height, ScaleOf(b, shared))
             IN  /\ k \in placed => b.svg.valid /\ (\E w \in ws : w >= 1) /\ (\E h \in hs : h >= 1)
                 /\ k \notin placed =>
                      ~b.svg.valid \/ (\E w \in ws : w < 1) \/ (\E h \in hs : h < 1)
        /\ GridCoversCells

\* C4 witness: a pass that leaves out a block and places at least two.
C4_Witness ==
  /\ Composed
  /\ Len(composites) < Len(svgData)
  /\ Len(composites) >= 2

Disjoint(e, f) ==
  \/ e.left + e.input.width <= f.left
  \/ f.left + f.input.width <= e.left
  \/ e.top + e.input.height <= f.top
  \/ f.top + f.input.height <= e.top

InCanvas(e) ==
  /\ 0 <= e.left /\ e.left + e.input.width <= WALLPAPER_WIDTH
  /\ 0 <= e.top /\ e.top + e.input.height <= WALLPAPER_HEIGHT

\* C5: the pixel rectangles [left, left + width) x [top, top + height) of
\* any two placements a pass emits are disjoint and each lies inside the
\* canvas, also when the cell height is not an integer.
C5_NoOverlap ==
  Composed =>
    /\ \A j, k \in 1..Len(composites) : j < k => Disjoint(composites[j], composites[k])
    /\ \A e \in Entries : InCanvas(e)

\* C5 witness: an edge-to-edge pass whose cell height is not an integer and
\* that places every block.
C5_Witness ==
  /\ Composed
  /\ variant = "edge"
  /\ grid.cellHeight.n % grid.cellHeight.d # 0
  /\ Len(composites) = Len(svgData)

(***************************************************************************)
(* Properties of the batch pipeline.                                       *)
(***************************************************************************)
\* The blocks of the files that can be read and rendered, in the files' order.
RECURSIVE ReadableBlocks(_)
ReadableBlocks(files) ==
  IF files = <<>> THEN <<>>
  ELSE (IF Head(files).readable
          THEN <<[svg |-> [of |-> Head(files).name, valid |-> Head(files).svgValid],
                  width |-> Head(files).width, height |-> Head(files).height,
                  fileName |-> Head(files).name]>>
          ELSE <<>>) \o ReadableBlocks(Tail(files))

SomeReadable == \E k \in 1..Len(recentFiles) : recentFiles[k].readable

\* C6: a file that fails is left out and the run goes on; the compositor is
\* invoked at most once, only after every file has been processed, and when
\* the run ends with a file that succeeded it has been invoked exactly once,
\* with exactly the blocks of the succeeding files in discovery order.
C6_PartialFailureTolerance ==
  /\ Len(compositorCalls) <= 1
  /\ compositorCalls # <<>> => fileIdx = Len(recentFiles)
  /\ (pc = "exit" /\ SomeReadable) => compositorCalls = <<ReadableBlocks(recentFiles)>>

\* C6 witness: a finished run over files of which the first failed and at
\* least two succeeded.
C6_Witness ==
  /\ pc = "exit"
  /\ recentFiles # <<>>
  /\ ~recentFiles[1].readable
  /\ compositorCalls # <<>>
  /\ Len(compositorCalls[1]) >= 2

\* C7: when no file yields a block the compositor is never invoked, no
\* image is written and the run ends with a non-zero exit code.
C7_EmptyBatchFails ==
  (pc = "exit" /\ svgData = <<>>) =>
    /\ compositorCalls = <<>>
    /\ ~outputWritten
    /\ exitCode # 0

(***************************************************************************)
(* Properties of detectLanguage.                                           *)
(***************************************************************************)
DotPlaces(path) == {k \in 1..Len(path) : path[k] = "."}

\* What follows the final dot of the path, empty when it holds no dot.
ExtensionOf(path) ==
  IF DotPlaces(path) = {} THEN <<>>
  ELSE SubSeq(path, Largest(DotPlaces(path)) + 1, Len(path))

\* py is python; js, jsx, ts and tsx are javascript; java is java; every
\* other extension, and none, is javascript.
TagOf(ext) ==
  CASE ext = <<"p", "y">> -> "python"
    [] ext = <<"j", "a", "v", "a">> -> "java"
    [] OTHER -> "javascript"

\* C2: detectLanguage returns the tag of the lower-cased text after the
\* final dot of the file name, that text empty when the name holds no dot,
\* so that a dot-less name such as py or java gives javascript.
C2_DetectByExtension ==
  detected # "none" => detected = TagOf(toLowerCase(ExtensionOf(filePath)))

====
